---- MODULE Spec2Model ----
(***************************************************************************)
(* Model of autobahn/wamp/protocol.py: the WampProtocol session engine     *)
(* (request ledgers, subscription table, transport handle) together with   *)
(* the Deferred completions it creates and fires.                          *)
(***************************************************************************)
EXTENDS Integers, Sequences, FiniteSets, TLC

(* ---------------------------- bounds ----------------------------------- *)

\* number of Deferreds the public operations may create in one behaviour
MaxCalls == 2
\* request ids are drawn from 0..MaxReqId
MaxReqId == 1
\* publication ids carried by Published are drawn from 1..MaxPubId
MaxPubId == 2
\* subscription ids are drawn from 1..MaxSubId
MaxSubId == 2

\* the positional payload of an error has at most MaxArgs elements
MaxArgs == 2
\* the calls of public operations followed into transport.send
MaxSends == 1

ReqIds == 0..MaxReqId
PubIds == 1..MaxPubId
SubIds == 1..MaxSubId
Handlers == {"h1", "h2"}
Uris == {"com.example.foo"}

(* ---------------------------- values ----------------------------------- *)

\* Python None as a transport handle / the attached transport object
None == "None"
Transport == "transport"

\* results a Deferred is fired with: None, an integer id, or an exception
NoneVal == [type |-> "None", int |-> -1, error |-> ""]
IntVal(n) == [type |-> "int", int |-> n, error |-> ""]

\* the messages onMessage is handed, in one record shape
Published(request, publication) ==
  [kind |-> "Published", request |-> request, publication |-> publication,
   subscription |-> -1, error |-> ""]
Subscribed(request, subscription) ==
  [kind |-> "Subscribed", request |-> request, publication |-> -1,
   subscription |-> subscription, error |-> ""]
Unsubscribed(request) ==
  [kind |-> "Unsubscribed", request |-> request, publication |-> -1,
   subscription |-> -1, error |-> ""]
\* message.Error(request, error, args, kwargs); absent args / kwargs are
\* the empty tuple / the empty dict (both are false where the code tests them)
ErrorMsg(request, error, args, kwargs) ==
  [kind |-> "Error", request |-> request, publication |-> -1,
   subscription |-> -1, error |-> error, args |-> args, kwargs |-> kwargs]
Error(request, error) == ErrorMsg(request, error, <<>>, <<>>)
\* a message of a kind the engine does not own (Event, Result, ...)
Event(subscription) ==
  [kind |-> "Event", request |-> -1, publication |-> -1,
   subscription |-> subscription, error |-> ""]
\* the request messages handed to transport.send
Publish(request) ==
  [kind |-> "Publish", request |-> request, publication |-> -1,
   subscription |-> -1, error |-> ""]
Subscribe(request) ==
  [kind |-> "Subscribe", request |-> request, publication |-> -1,
   subscription |-> -1, error |-> ""]
Unsubscribe(request, subscription) ==
  [kind |-> "Unsubscribe", request |-> request, publication |-> -1,
   subscription |-> subscription, error |-> ""]
NoMsg ==
  [kind |-> "", request |-> -1, publication |-> -1, subscription |-> -1,
   error |-> ""]

Messages ==
  {Published(r, p) : r \in ReqIds, p \in PubIds}
    \cup {Subscribed(r, s) : r \in ReqIds, s \in SubIds}
    \cup {Unsubscribed(r) : r \in ReqIds}
    \cup {Error(r, u) : r \in ReqIds, u \in Uris}
    \cup {Event(s) : s \in SubIds}

(* ---------------------------- state ------------------------------------ *)

VARIABLES
  _transport,         \* WampProtocol._transport
  _publish_reqs,      \* request id -> Deferred
  _subscribe_reqs,    \* request id -> <<Deferred, handler>>
  _unsubscribe_reqs,  \* request id -> <<Deferred, subscription>>
  _subscriptions,     \* subscription id -> handler
  deferreds,          \* the Deferreds created so far, in creation order
  last,               \* the latest call on the engine and how it ended
  pc,                 \* the public operation that is inside transport.send
  _ecls_to_uri_pat,   \* Peer: error class -> its URI patterns
  _uri_to_ecls,       \* Peer: error URI -> error class
  peer                \* the latest call on the error translator

ledgers == <<_publish_reqs, _subscribe_reqs, _unsubscribe_reqs>>
\* the state of the session engine / of the error translator
engine_vars == <<_transport, ledgers, _subscriptions, deferreds, last, pc>>
peer_vars == <<_ecls_to_uri_pat, _uri_to_ecls, peer>>
vars == <<_transport, _publish_reqs, _subscribe_reqs, _unsubscribe_reqs,
          _subscriptions, deferreds, last, pc, _ecls_to_uri_pat,
          _uri_to_ecls, peer>>

\* dict helpers: d[k] = v, del d[k] / d.pop(k)
Put(f, k, v) == [x \in (DOMAIN f) \cup {k} |-> IF x = k THEN v ELSE f[x]]
Del(f, k) == [x \in (DOMAIN f) \ {k} |-> f[x]]
EmptyDict == [x \in {} |-> 0]

\* the ids that are keys of some ledger
PendingIds ==
  (DOMAIN _publish_reqs) \cup (DOMAIN _subscribe_reqs)
    \cup (DOMAIN _unsubscribe_reqs)

(* ---------------------------- Deferred --------------------------------- *)

\* d = Deferred(): not called, no result
Deferred == [called |-> FALSE, result |-> NoneVal]

\* d.callback(result) / d.errback(fail): the first invocation fires the
\* Deferred with the result, any later one raises AlreadyCalledError and
\* leaves the result in place
fire(ds, d, result) ==
  [ds EXCEPT ![d] = IF ds[d].called THEN @
                                    ELSE [called |-> TRUE, result |-> result]]
callback(ds, d, result) == fire(ds, d, result)
errback(ds, d, fail) == fire(ds, d, fail)

\* what the call of onMessage that fires d ends with
fireOutcome(ds, d) == IF ds[d].called THEN "AlreadyCalledError" ELSE "True"

(* ---------------------------- Peer ------------------------------------- *)

\* URI patterns: Pattern(uri, Pattern.URI_TARGET_HANDLER), an exact match
Pattern(uri) == [uri |-> uri, target |-> "handler"]

DeclaredUri == "com.example.declared"
RuntimeErrorUri == "wamp.error.runtime_error"
\* the URIs define is called with / the URIs an Error message may carry
DefUris == Uris \cup {DeclaredUri}
ErrorUris == DefUris \cup {RuntimeErrorUri}

\* the error classes handed to define:
\*   MyError     class MyError(Exception): pass
\*   KwError     __init__(self, *args, **kwargs), keeps self.kwargs
\*   DeclError   as MyError, and declares _wampuris
\*   CountError  __init__(self, *args) hands len(args) to Exception
ErrorClasses == {"MyError", "KwError", "DeclError", "CountError"}
\* hasattr(exception, '_wampuris') and the patterns declared
HasWampuris(ecls) == ecls = "DeclError"
_wampuris(ecls) == <<Pattern(DeclaredUri)>>
\* hasattr(exc, 'kwargs')
HasKwargs(ecls) == ecls \in {"KwError", "ApplicationError"}

\* payloads: positional (1, .., n) and keyword {} or {'k': 1}
ArgsSet == {[i \in 1..n |-> i] : n \in 0..MaxArgs}
KwargsSet == {<<>>, [k \in {"k"} |-> 1]}

\* an exception instance; error is the URI a generic ApplicationError
\* carries as args[0], args its remaining positional payload
Exc(ecls, error, args, kwargs) ==
  [ecls |-> ecls, error |-> error, args |-> args, kwargs |-> kwargs]
\* a raised exception, and exc = None
Raised(name) == [raised |-> name]
NoExc == [raised |-> "None"]

\* exception.ApplicationError(error, *args, **kwargs): never fails
ApplicationError(error, args, kwargs) ==
  Exc("ApplicationError", error, args, kwargs)

\* ecls(*args, **kwargs): the instance, or TypeError when the constructor
\* does not take the payload
Construct(ecls, args, kwargs) ==
  CASE ecls = "KwError" -> Exc(ecls, "", args, kwargs)
    [] ecls = "CountError" ->
         IF kwargs = <<>> THEN Exc(ecls, "", <<Len(args)>>, <<>>)
                          ELSE Raised("TypeError")
    [] OTHER ->
         IF kwargs = <<>> THEN Exc(ecls, "", args, <<>>)
                          ELSE Raised("TypeError")

\* the instances a caller can hold
Exceptions ==
  ({Construct(c, a, k) : c \in ErrorClasses, a \in ArgsSet, k \in KwargsSet}
     \ {Raised("TypeError")})
   \cup {ApplicationError(u, a, k) :
           u \in ErrorUris, a \in ArgsSet, k \in KwargsSet}

ErrorMsgs ==
  {ErrorMsg(r, u, a, k) :
     r \in ReqIds, u \in ErrorUris, a \in ArgsSet, k \in KwargsSet}

\* Peer._message_from_exception that leaves out the keyword payload
_message_from_exception_no_kwargs(request, exc) ==
  IF exc.ecls = "ApplicationError"
    THEN ErrorMsg(request, exc.error, exc.args, <<>>)
    ELSE LET error == IF exc.ecls \in DOMAIN _ecls_to_uri_pat
                        THEN _ecls_to_uri_pat[exc.ecls][1].uri
                        ELSE RuntimeErrorUri IN
         ErrorMsg(request, error, exc.args, <<>>)

\* Peer._message_from_exception
_message_from_exception(request, exc) ==
  IF exc.ecls = "ApplicationError"
    THEN ErrorMsg(request, exc.error, exc.args, exc.kwargs)
    ELSE LET error == IF exc.ecls \in DOMAIN _ecls_to_uri_pat
                        THEN _ecls_to_uri_pat[exc.ecls][1].uri
                        ELSE RuntimeErrorUri IN
         IF HasKwargs(exc.ecls)
           THEN ErrorMsg(request, error, exc.args, exc.kwargs)
           ELSE ErrorMsg(request, error, exc.args, <<>>)

\* the try block without its except clause: the failure propagates
_reconstruct_unguarded(msg) ==
  IF msg.error \in DOMAIN _uri_to_ecls
    THEN Construct(_uri_to_ecls[msg.error], msg.args, msg.kwargs)
    ELSE NoExc

\* the first half of _exception_from_message: the instance of the class
\* mapped to the URI, or None when there is no class or its constructor
\* fails
_reconstruct(msg) ==
  IF msg.error \in DOMAIN _uri_to_ecls
    THEN LET ecls == _uri_to_ecls[msg.error]
             exc == IF msg.kwargs # <<>>
                      THEN IF msg.args # <<>>
                             THEN Construct(ecls, msg.args, msg.kwargs)
                             ELSE Construct(ecls, <<>>, msg.kwargs)
                      ELSE IF msg.args # <<>>
                             THEN Construct(ecls, msg.args, <<>>)
                             ELSE Construct(ecls, <<>>, <<>>) IN
         IF exc = Raised("TypeError") THEN NoExc ELSE exc
    ELSE NoExc

\* Peer._exception_from_message
_exception_from_message(msg) ==
  LET exc == _reconstruct(msg) IN
  IF exc = NoExc
    THEN ApplicationError(msg.error, msg.args, msg.kwargs)
    ELSE exc

(* ---------------------------- records of calls ------------------------- *)

\* op: the method called; msg: the message onMessage was handed, or the one
\* a public operation handed to transport.send (NoMsg: none); d: the
\* Deferred it created or fired (0: none); handler: the handler passed to
\* subscribe; found: the ledger the message's request id was found in;
\* outcome: the value returned or the exception raised
Call(op, msg, d, handler, found, outcome) ==
  [op |-> op, msg |-> msg, d |-> d, handler |-> handler, found |-> found,
   outcome |-> outcome]

\* no public operation is inside transport.send
NoCall == Call("", NoMsg, 0, "", "none", "")

\* a call on the error translator: the class and URI given to define, the
\* exception or message translated, the result, and how the call ended
PeerCall(op, ecls, error, exc, msg, result, outcome) ==
  [op |-> op, ecls |-> ecls, error |-> error, exc |-> exc, msg |-> msg,
   result |-> result, outcome |-> outcome]

Init ==
  /\ _transport = None
  /\ _publish_reqs = EmptyDict
  /\ _subscribe_reqs = EmptyDict
  /\ _unsubscribe_reqs = EmptyDict
  /\ _subscriptions = EmptyDict
  /\ deferreds = <<>>
  /\ last = Call("__init__", NoMsg, 0, "", "none", "returned")
  /\ pc = NoCall
  /\ _ecls_to_uri_pat = EmptyDict
  /\ _uri_to_ecls = EmptyDict
  /\ peer = PeerCall("__init__", "", None, NoExc, NoMsg, NoExc, "returned")

(* ---------------------------- transport events ------------------------- *)

onOpen ==
  /\ _transport' = Transport
  /\ UNCHANGED <<pc, peer_vars>>
  /\ last' = Call("onOpen", NoMsg, 0, "", "none", "returned")
  /\ UNCHANGED <<ledgers, _subscriptions, deferreds>>

\* onClose that also drops the pending requests
onClose_dropping_pending ==
  /\ _transport' = None
  /\ _publish_reqs' = EmptyDict
  /\ _subscribe_reqs' = EmptyDict
  /\ _unsubscribe_reqs' = EmptyDict
  /\ UNCHANGED <<pc, peer_vars>>
  /\ last' = Call("onClose", NoMsg, 0, "", "none", "returned")
  /\ UNCHANGED <<_subscriptions, deferreds>>

\* onClose that also clears the subscription table
onClose_clearing_subscriptions ==
  /\ _transport' = None
  /\ _subscriptions' = EmptyDict
  /\ UNCHANGED <<pc, peer_vars>>
  /\ last' = Call("onClose", NoMsg, 0, "", "none", "returned")
  /\ UNCHANGED <<ledgers, deferreds>>

onClose ==
  /\ _transport' = None
  /\ UNCHANGED <<pc, peer_vars>>
  /\ last' = Call("onClose", NoMsg, 0, "", "none", "returned")
  /\ UNCHANGED <<ledgers, _subscriptions, deferreds>>

(* ---------------------------- public operations ------------------------ *)

\* util.id(): a fresh request id, unique among the ids pending in any ledger
newRequestId == ReqIds \ PendingIds

\* self._transport.send(msg): the transport takes the message and the
\* operation returns its Deferred, or send raises
send(sendOk) == IF sendOk THEN "returned" ELSE "SendFailed"

\* publish without the check of the transport handle
publish_unchecked(request, sendOk) ==
  /\ Len(deferreds) < MaxCalls
  /\ request \in newRequestId
  /\ deferreds' = Append(deferreds, Deferred)
  /\ _publish_reqs' = Put(_publish_reqs, request, Len(deferreds) + 1)
  /\ UNCHANGED <<pc, peer_vars>>
  /\ last' = Call("publish", Publish(request), Len(deferreds) + 1, "",
                  "none", send(sendOk))
  /\ UNCHANGED <<_transport, _subscribe_reqs, _unsubscribe_reqs,
                 _subscriptions>>

publish(request, sendOk) ==
  IF _transport = None
    THEN /\ UNCHANGED <<pc, peer_vars>>
         /\ last' = Call("publish", NoMsg, 0, "", "none", "TransportLost")
         /\ UNCHANGED <<_transport, ledgers, _subscriptions, deferreds>>
    ELSE /\ Len(deferreds) < MaxCalls
         /\ request \in newRequestId
         /\ deferreds' = Append(deferreds, Deferred)
         /\ _publish_reqs' = Put(_publish_reqs, request, Len(deferreds) + 1)
         /\ UNCHANGED <<pc, peer_vars>>
         /\ last' = Call("publish", Publish(request), Len(deferreds) + 1, "",
                         "none", send(sendOk))
         /\ UNCHANGED <<_transport, _subscribe_reqs, _unsubscribe_reqs,
                        _subscriptions>>

subscribe(handler, request, sendOk) ==
  IF _transport = None
    THEN /\ UNCHANGED <<pc, peer_vars>>
         /\ last' = Call("subscribe", NoMsg, 0, handler, "none",
                         "TransportLost")
         /\ UNCHANGED <<_transport, ledgers, _subscriptions, deferreds>>
    ELSE /\ Len(deferreds) < MaxCalls
         /\ request \in newRequestId
         /\ deferreds' = Append(deferreds, Deferred)
         /\ _subscribe_reqs' =
              Put(_subscribe_reqs, request, <<Len(deferreds) + 1, handler>>)
         /\ UNCHANGED <<pc, peer_vars>>
         /\ last' = Call("subscribe", Subscribe(request), Len(deferreds) + 1,
                         handler, "none", send(sendOk))
         /\ UNCHANGED <<_transport, _publish_reqs, _unsubscribe_reqs,
                        _subscriptions>>

\* the body of unsubscribe, with the key the pending entry is stored under
unsubscribe_at(key, subscription, request, sendOk) ==
  IF _transport = None
    THEN /\ UNCHANGED <<pc, peer_vars>>
         /\ last' = Call("unsubscribe", NoMsg, 0, "", "none", "TransportLost")
         /\ UNCHANGED <<_transport, ledgers, _subscriptions, deferreds>>
    ELSE /\ Len(deferreds) < MaxCalls
         /\ request \in newRequestId
         /\ deferreds' = Append(deferreds, Deferred)
         /\ _unsubscribe_reqs' =
              Put(_unsubscribe_reqs, key, <<Len(deferreds) + 1, subscription>>)
         /\ UNCHANGED <<pc, peer_vars>>
         /\ last' = Call("unsubscribe", Unsubscribe(request, subscription),
                         Len(deferreds) + 1, "", "none", send(sendOk))
         /\ UNCHANGED <<_transport, _publish_reqs, _subscribe_reqs,
                        _subscriptions>>

\* unsubscribe storing its pending entry under the subscription id
unsubscribe_keyed_by_subscription(subscription, request, sendOk) ==
  unsubscribe_at(subscription, subscription, request, sendOk)

unsubscribe(subscription, request, sendOk) ==
  unsubscribe_at(request, subscription, request, sendOk)

(* ---------------------------- onMessage -------------------------------- *)

\* onPublished treating a reply to a non-pending request as processed
onPublished_silent(msg) ==
  IF msg.request \in DOMAIN _publish_reqs
    THEN LET d == _publish_reqs[msg.request] IN
         /\ deferreds' = callback(deferreds, d, IntVal(msg.publication))
         /\ UNCHANGED <<pc, peer_vars>>
         /\ last' = Call("onMessage", msg, d, "", "publish",
                         fireOutcome(deferreds, d))
         /\ UNCHANGED <<_transport, ledgers, _subscriptions>>
    ELSE /\ UNCHANGED <<pc, peer_vars>>
         /\ last' = Call("onMessage", msg, 0, "", "none", "True")
         /\ UNCHANGED <<_transport, ledgers, _subscriptions, deferreds>>

\* isinstance(msg, message.Published)
onPublished(msg) ==
  IF msg.request \in DOMAIN _publish_reqs
    THEN LET d == _publish_reqs[msg.request] IN
         /\ deferreds' = callback(deferreds, d, IntVal(msg.publication))
         /\ UNCHANGED <<pc, peer_vars>>
         /\ last' = Call("onMessage", msg, d, "", "publish",
                         fireOutcome(deferreds, d))
         /\ UNCHANGED <<_transport, ledgers, _subscriptions>>
    ELSE /\ UNCHANGED <<pc, peer_vars>>
         /\ last' = Call("onMessage", msg, 0, "", "none", "ProtocolError")
         /\ UNCHANGED <<_transport, ledgers, _subscriptions, deferreds>>

\* isinstance(msg, message.Subscribed)
onSubscribed(msg) ==
  IF msg.request \in DOMAIN _subscribe_reqs
    THEN LET d == _subscribe_reqs[msg.request][1]
             handler == _subscribe_reqs[msg.request][2] IN
         /\ _subscriptions' = Put(_subscriptions, msg.subscription, handler)
         /\ deferreds' = callback(deferreds, d, IntVal(msg.subscription))
         /\ UNCHANGED <<pc, peer_vars>>
         /\ last' = Call("onMessage", msg, d, "", "subscribe",
                         fireOutcome(deferreds, d))
         /\ UNCHANGED <<_transport, ledgers>>
    ELSE /\ UNCHANGED <<pc, peer_vars>>
         /\ last' = Call("onMessage", msg, 0, "", "none", "ProtocolError")
         /\ UNCHANGED <<_transport, ledgers, _subscriptions, deferreds>>

\* onUnsubscribed that leaves the subscription in place
onUnsubscribed_keep(msg) ==
  IF msg.request \in DOMAIN _unsubscribe_reqs
    THEN LET d == _unsubscribe_reqs[msg.request][1] IN
         /\ deferreds' = callback(deferreds, d, NoneVal)
         /\ UNCHANGED <<pc, peer_vars>>
         /\ last' = Call("onMessage", msg, d, "", "unsubscribe",
                         fireOutcome(deferreds, d))
         /\ UNCHANGED <<_transport, ledgers, _subscriptions>>
    ELSE /\ UNCHANGED <<pc, peer_vars>>
         /\ last' = Call("onMessage", msg, 0, "", "none", "ProtocolError")
         /\ UNCHANGED <<_transport, ledgers, _subscriptions, deferreds>>

\* isinstance(msg, message.Unsubscribed)
onUnsubscribed(msg) ==
  IF msg.request \in DOMAIN _unsubscribe_reqs
    THEN LET d == _unsubscribe_reqs[msg.request][1]
             subscription == _unsubscribe_reqs[msg.request][2] IN
         /\ _subscriptions' = IF subscription \in DOMAIN _subscriptions
                                THEN Del(_subscriptions, subscription)
                                ELSE _subscriptions
         /\ deferreds' = callback(deferreds, d, NoneVal)
         /\ UNCHANGED <<pc, peer_vars>>
         /\ last' = Call("onMessage", msg, d, "", "unsubscribe",
                         fireOutcome(deferreds, d))
         /\ UNCHANGED <<_transport, ledgers>>
    ELSE /\ UNCHANGED <<pc, peer_vars>>
         /\ last' = Call("onMessage", msg, 0, "", "none", "ProtocolError")
         /\ UNCHANGED <<_transport, ledgers, _subscriptions, deferreds>>

\* isinstance(msg, message.Error): the ledgers are probed in order and the
\* entry found is popped; the entry of the unsubscribe ledger is the tuple
\* (d, subscription), which has no errback
onError(msg) ==
  IF msg.request \in DOMAIN _publish_reqs
    THEN LET d == _publish_reqs[msg.request] IN
         /\ _publish_reqs' = Del(_publish_reqs, msg.request)
         /\ deferreds' = errback(deferreds, d, _exception_from_message(msg))
         /\ UNCHANGED <<pc, peer_vars>>
         /\ last' = Call("onMessage", msg, d, "", "publish",
                         fireOutcome(deferreds, d))
         /\ UNCHANGED <<_transport, _subscribe_reqs, _unsubscribe_reqs,
                        _subscriptions>>
    ELSE IF msg.request \in DOMAIN _subscribe_reqs
    THEN LET d == _subscribe_reqs[msg.request][1] IN
         /\ _subscribe_reqs' = Del(_subscribe_reqs, msg.request)
         /\ deferreds' = errback(deferreds, d, _exception_from_message(msg))
         /\ UNCHANGED <<pc, peer_vars>>
         /\ last' = Call("onMessage", msg, d, "", "subscribe",
                         fireOutcome(deferreds, d))
         /\ UNCHANGED <<_transport, _publish_reqs, _unsubscribe_reqs,
                        _subscriptions>>
    ELSE IF msg.request \in DOMAIN _unsubscribe_reqs
    THEN /\ _unsubscribe_reqs' = Del(_unsubscribe_reqs, msg.request)
         /\ UNCHANGED <<pc, peer_vars>>
         /\ last' = Call("onMessage", msg, 0, "", "unsubscribe",
                         "AttributeError")
         /\ UNCHANGED <<_transport, _publish_reqs, _subscribe_reqs,
                        _subscriptions, deferreds>>
    ELSE /\ UNCHANGED <<pc, peer_vars>>
         /\ last' = Call("onMessage", msg, 0, "", "none", "ProtocolError")
         /\ UNCHANGED <<_transport, ledgers, _subscriptions, deferreds>>

\* onOther reporting the message as processed
onOther_handled(msg) ==
  /\ UNCHANGED <<pc, peer_vars>>
  /\ last' = Call("onMessage", msg, 0, "", "none", "True")
  /\ UNCHANGED <<_transport, ledgers, _subscriptions, deferreds>>

\* any other message kind: not processed
onOther(msg) ==
  /\ UNCHANGED <<pc, peer_vars>>
  /\ last' = Call("onMessage", msg, 0, "", "none", "False")
  /\ UNCHANGED <<_transport, ledgers, _subscriptions, deferreds>>

onMessage(msg) ==
  CASE msg.kind = "Published" -> onPublished(msg)
    [] msg.kind = "Subscribed" -> onSubscribed(msg)
    [] msg.kind = "Unsubscribed" -> onUnsubscribed(msg)
    [] msg.kind = "Error" -> onError(msg)
    [] OTHER -> onOther(msg)

(* ---------------------------- specification ---------------------------- *)

Next ==
  \/ onOpen
  \/ onClose
  \/ \E msg \in Messages : onMessage(msg)
  \/ \E request \in ReqIds, sendOk \in BOOLEAN : publish(request, sendOk)
  \/ \E handler \in Handlers, request \in ReqIds, sendOk \in BOOLEAN :
       subscribe(handler, request, sendOk)
  \/ \E subscription \in SubIds, request \in ReqIds, sendOk \in BOOLEAN :
       unsubscribe(subscription, request, sendOk)

Spec == Init /\ [][Next]_vars

(* ---------------------------- error translator ------------------------- *)

\* define without the assertion of its else branch
define_unasserted(exception, error) ==
  /\ UNCHANGED engine_vars
  /\ IF error = None
       THEN IF HasWampuris(exception)
              THEN /\ _ecls_to_uri_pat' =
                        Put(_ecls_to_uri_pat, exception, _wampuris(exception))
                   /\ _uri_to_ecls' =
                        Put(_uri_to_ecls, _wampuris(exception)[1].uri,
                            exception)
                   /\ peer' = PeerCall("define", exception, error, NoExc,
                                       NoMsg, NoExc, "returned")
              ELSE /\ peer' = PeerCall("define", exception, error, NoExc,
                                       NoMsg, NoExc, "AssertionError")
                   /\ UNCHANGED <<_ecls_to_uri_pat, _uri_to_ecls>>
       ELSE /\ _ecls_to_uri_pat' =
                 Put(_ecls_to_uri_pat, exception, <<Pattern(error)>>)
            /\ _uri_to_ecls' = Put(_uri_to_ecls, error, exception)
            /\ peer' = PeerCall("define", exception, error, NoExc, NoMsg,
                                NoExc, "returned")

\* Peer.define(exception, error = None)
define(exception, error) ==
  /\ UNCHANGED engine_vars
  /\ IF error = None
       THEN IF HasWampuris(exception)
              THEN /\ _ecls_to_uri_pat' =
                        Put(_ecls_to_uri_pat, exception, _wampuris(exception))
                   /\ _uri_to_ecls' =
                        Put(_uri_to_ecls, _wampuris(exception)[1].uri,
                            exception)
                   /\ peer' = PeerCall("define", exception, error, NoExc,
                                       NoMsg, NoExc, "returned")
              ELSE /\ peer' = PeerCall("define", exception, error, NoExc,
                                       NoMsg, NoExc, "AssertionError")
                   /\ UNCHANGED <<_ecls_to_uri_pat, _uri_to_ecls>>
       ELSE IF ~HasWampuris(exception)
              THEN /\ _ecls_to_uri_pat' =
                        Put(_ecls_to_uri_pat, exception, <<Pattern(error)>>)
                   /\ _uri_to_ecls' = Put(_uri_to_ecls, error, exception)
                   /\ peer' = PeerCall("define", exception, error, NoExc,
                                       NoMsg, NoExc, "returned")
              ELSE /\ peer' = PeerCall("define", exception, error, NoExc,
                                       NoMsg, NoExc, "AssertionError")
                   /\ UNCHANGED <<_ecls_to_uri_pat, _uri_to_ecls>>

\* a call of _message_from_exception(request, exc)
toWireError(request, exc) ==
  /\ peer' = PeerCall("_message_from_exception", "", None, exc,
                      _message_from_exception(request, exc), NoExc,
                      "returned")
  /\ UNCHANGED <<engine_vars, _ecls_to_uri_pat, _uri_to_ecls>>

\* a call of _exception_from_message(msg)
fromWireError(msg) ==
  /\ peer' = PeerCall("_exception_from_message", "", None, NoExc, msg,
                      _exception_from_message(msg),
                      IF "raised" \in DOMAIN _exception_from_message(msg)
                        THEN "TypeError" ELSE "returned")
  /\ UNCHANGED <<engine_vars, _ecls_to_uri_pat, _uri_to_ecls>>

PeerNext ==
  \/ \E exception \in ErrorClasses, error \in DefUris \cup {None} :
       define(exception, error)
  \/ \E request \in ReqIds, exc \in Exceptions : toWireError(request, exc)
  \/ \E msg \in ErrorMsgs : fromWireError(msg)

\* the error translator on its own, before session use
PeerSpec == Init /\ [][PeerNext]_vars

(* ---------------------------- inside transport.send ------------------- *)

\* publish handing its message to transport.send before the pending entry
\* is stored
publish_send_first(request) ==
  /\ pc = NoCall
  /\ UNCHANGED peer_vars
  /\ IF _transport = None
       THEN /\ last' = Call("publish", NoMsg, 0, "", "none", "TransportLost")
            /\ UNCHANGED <<_transport, ledgers, _subscriptions, deferreds,
                           pc>>
       ELSE /\ Len(deferreds) < MaxSends
            /\ request \in newRequestId
            /\ deferreds' = Append(deferreds, Deferred)
            /\ pc' = Call("publish", Publish(request), Len(deferreds) + 1,
                          "", "none", "sending")
            /\ last' = pc'
            /\ UNCHANGED <<_transport, ledgers, _subscriptions>>

\* publish up to its call of transport.send: the control is inside send
publish_to_send(request) ==
  /\ pc = NoCall
  /\ UNCHANGED peer_vars
  /\ IF _transport = None
       THEN /\ last' = Call("publish", NoMsg, 0, "", "none", "TransportLost")
            /\ UNCHANGED <<_transport, ledgers, _subscriptions, deferreds,
                           pc>>
       ELSE /\ Len(deferreds) < MaxSends
            /\ request \in newRequestId
            /\ deferreds' = Append(deferreds, Deferred)
            /\ _publish_reqs' =
                 Put(_publish_reqs, request, Len(deferreds) + 1)
            /\ pc' = Call("publish", Publish(request), Len(deferreds) + 1,
                          "", "none", "sending")
            /\ last' = pc'
            /\ UNCHANGED <<_transport, _subscribe_reqs, _unsubscribe_reqs,
                           _subscriptions>>

\* subscribe up to its call of transport.send
subscribe_to_send(handler, request) ==
  /\ pc = NoCall
  /\ UNCHANGED peer_vars
  /\ IF _transport = None
       THEN /\ last' = Call("subscribe", NoMsg, 0, handler, "none",
                            "TransportLost")
            /\ UNCHANGED <<_transport, ledgers, _subscriptions, deferreds,
                           pc>>
       ELSE /\ Len(deferreds) < MaxSends
            /\ request \in newRequestId
            /\ deferreds' = Append(deferreds, Deferred)
            /\ _subscribe_reqs' =
                 Put(_subscribe_reqs, request,
                     <<Len(deferreds) + 1, handler>>)
            /\ pc' = Call("subscribe", Subscribe(request),
                          Len(deferreds) + 1, handler, "none", "sending")
            /\ last' = pc'
            /\ UNCHANGED <<_transport, _publish_reqs, _unsubscribe_reqs,
                           _subscriptions>>

\* unsubscribe up to its call of transport.send
unsubscribe_to_send(subscription, request) ==
  /\ pc = NoCall
  /\ UNCHANGED peer_vars
  /\ IF _transport = None
       THEN /\ last' = Call("unsubscribe", NoMsg, 0, "", "none",
                            "TransportLost")
            /\ UNCHANGED <<_transport, ledgers, _subscriptions, deferreds,
                           pc>>
       ELSE /\ Len(deferreds) < MaxSends
            /\ request \in newRequestId
            /\ deferreds' = Append(deferreds, Deferred)
            /\ _unsubscribe_reqs' =
                 Put(_unsubscribe_reqs, request,
                     <<Len(deferreds) + 1, subscription>>)
            /\ pc' = Call("unsubscribe", Unsubscribe(request, subscription),
                          Len(deferreds) + 1, "", "none", "sending")
            /\ last' = pc'
            /\ UNCHANGED <<_transport, _publish_reqs, _subscribe_reqs,
                           _subscriptions>>

\* transport.send returns or raises, and with it the public operation
send_return(sendOk) ==
  /\ pc # NoCall
  /\ pc' = NoCall
  /\ last' = [pc EXCEPT !.outcome = send(sendOk)]
  /\ UNCHANGED <<_transport, ledgers, _subscriptions, deferreds, peer_vars>>

\* the transport calls back into the engine while a public operation is
\* inside transport.send as well as between the operations
SendNext ==
  \/ onOpen
  \/ onClose
  \/ \E msg \in Messages : onMessage(msg)
  \/ \E request \in ReqIds : publish_to_send(request)
  \/ \E handler \in Handlers, request \in ReqIds :
       subscribe_to_send(handler, request)
  \/ \E subscription \in SubIds, request \in ReqIds :
       unsubscribe_to_send(subscription, request)
  \/ \E sendOk \in BOOLEAN : send_return(sendOk)

SendSpec == Init /\ [][SendNext]_vars

(* ---------------------------- properties ------------------------------- *)

PublicOps == {"publish", "subscribe", "unsubscribe"}
SuccessKinds == {"Published", "Subscribed", "Unsubscribed"}
ReplyKinds == SuccessKinds \cup {"Error"}

\* the step just taken is a call of onMessage / of a public operation
OnMessageStep == last'.op = "onMessage"
PublicStep == last'.op \in PublicOps

\* msg's request id is pending in the ledger its kind is looked up in
InRelevantLedger(msg) ==
  CASE msg.kind = "Published" -> msg.request \in DOMAIN _publish_reqs
    [] msg.kind = "Subscribed" -> msg.request \in DOMAIN _subscribe_reqs
    [] msg.kind = "Unsubscribed" -> msg.request \in DOMAIN _unsubscribe_reqs
    [] msg.kind = "Error" -> msg.request \in PendingIds
    [] OTHER -> FALSE

\* every entry of ledger f other than r's is still there, unchanged
OthersKept(f, g, r) ==
  \A x \in (DOMAIN f) \ {r} : x \in DOMAIN g /\ g[x] = f[x]

\* C1: over any sequence of onMessage deliveries the completion of a request
\* gets one resolution event: no delivery invokes callback or errback on a
\* completion that was already resolved or rejected.
C1_ResolvedOnce == last.outcome # "AlreadyCalledError"

\* C2: when onMessage has processed the matching reply (success or Error) of
\* a pending request R, R is pending in no ledger.
C2_RemovedOnReply ==
  (last.op = "onMessage" /\ last.found # "none")
    => last.msg.request \notin PendingIds

\* no request id is a key of two ledgers
LedgersDisjoint ==
  /\ (DOMAIN _publish_reqs) \cap (DOMAIN _subscribe_reqs) = {}
  /\ (DOMAIN _publish_reqs) \cap (DOMAIN _unsubscribe_reqs) = {}
  /\ (DOMAIN _subscribe_reqs) \cap (DOMAIN _unsubscribe_reqs) = {}

C4_PublishedResolvesOnlyR ==
  [][(OnMessageStep /\ last'.msg.kind = "Published"
        /\ last'.msg.request \in DOMAIN _publish_reqs)
       => LET R == last'.msg.request
              d == _publish_reqs[R] IN
          /\ deferreds'[d] =
               [called |-> TRUE, result |-> IntVal(last'.msg.publication)]
          /\ \A e \in (DOMAIN deferreds) \ {d} : deferreds'[e] = deferreds[e]
          /\ OthersKept(_publish_reqs, _publish_reqs', R)
          /\ UNCHANGED <<_subscribe_reqs, _unsubscribe_reqs,
                         _subscriptions>>]_vars

\* C5: subscribe(handler) registers its handler with the request, and after
\* Subscribed(R, S) is delivered for that request the subscription table
\* maps S to that handler and the completion of R is resolved with S.
C5_SubscribedInstallsHandler ==
  [][/\ (last'.op = "subscribe" /\ last'.outcome # "TransportLost")
          => _subscribe_reqs'[last'.msg.request] =
               <<last'.d, last'.handler>>
     /\ (OnMessageStep /\ last'.msg.kind = "Subscribed"
           /\ last'.msg.request \in DOMAIN _subscribe_reqs)
          => LET R == last'.msg.request
                 S == last'.msg.subscription IN
             /\ S \in DOMAIN _subscriptions'
             /\ _subscriptions'[S] = _subscribe_reqs[R][2]
             /\ deferreds'[_subscribe_reqs[R][1]] =
                  [called |-> TRUE, result |-> IntVal(S)]]_vars

\* C6: a subscription id enters the table only when a Subscribed reply that
\* carries it is processed for a request of the Subscribe ledger, and it
\* leaves the table exactly when an Unsubscribed reply is processed for a
\* request of the Unsubscribe ledger that names it.
C6_SubscriptionLifecycle ==
  [][\A S \in SubIds :
       /\ (S \notin DOMAIN _subscriptions /\ S \in DOMAIN _subscriptions')
            => /\ OnMessageStep
               /\ last'.msg.kind = "Subscribed"
               /\ last'.msg.subscription = S
               /\ last'.msg.request \in DOMAIN _subscribe_reqs
       /\ S \in DOMAIN _subscriptions
            => (S \notin DOMAIN _subscriptions'
                  <=> /\ OnMessageStep
                      /\ last'.msg.kind = "Unsubscribed"
                      /\ last'.msg.request \in DOMAIN _unsubscribe_reqs
                      /\ _unsubscribe_reqs[last'.msg.request][2] = S)]_vars
\* a subscription installed by a Subscribed reply has just been removed by
\* the Unsubscribed reply to the unsubscribe request naming it
C6_Witness ==
  /\ last.op = "onMessage"
  /\ last.msg.kind = "Unsubscribed"
  /\ last.outcome = "True"
  /\ \E r \in DOMAIN _subscribe_reqs :
       LET d == deferreds[_subscribe_reqs[r][1]] IN
       /\ d.called
       /\ d.result.type = "int"
       /\ d.result.int = _unsubscribe_reqs[last.msg.request][2]
       /\ d.result.int \notin DOMAIN _subscriptions

\* C7: an Unsubscribed reply for a request of the Unsubscribe ledger whose
\* subscription id is not in the subscription table raises nothing, leaves
\* the table unchanged and resolves the completion with no value.
C7_UnsubscribedAbsentIsNoOp ==
  [][(/\ OnMessageStep
      /\ last'.msg.kind = "Unsubscribed"
      /\ last'.msg.request \in DOMAIN _unsubscribe_reqs
      /\ _unsubscribe_reqs[last'.msg.request][2]
           \notin DOMAIN _subscriptions)
       => /\ last'.outcome = "True"
          /\ _subscriptions' = _subscriptions
          /\ deferreds'[_unsubscribe_reqs[last'.msg.request][1]] =
               [called |-> TRUE, result |-> NoneVal]]_vars

\* C8: onMessage on a Published, Subscribed, Unsubscribed or Error message
\* whose request id is not pending in the relevant ledger raises
\* ProtocolError and changes no ledger, subscription or completion.
C8_NonPendingIsProtocolError ==
  [][(OnMessageStep /\ last'.msg.kind \in ReplyKinds
        /\ ~InRelevantLedger(last'.msg))
       => /\ last'.outcome = "ProtocolError"
          /\ UNCHANGED <<_transport, ledgers, _subscriptions,
                         deferreds>>]_vars
C8_Witness ==
  /\ last.op = "onMessage"
  /\ last.outcome = "ProtocolError"
  /\ last.msg.kind = "Published"
  /\ last.msg.request \in DOMAIN _subscribe_reqs

\* C9: once a success reply for request R has been processed, the next
\* reply of the same kind for R, or an Error for R, is reported as a
\* ProtocolError and reaches neither a completion nor the subscription
\* table.
C9_ReplyToResolvedIsViolation ==
  [][(/\ last.op = "onMessage"
      /\ last.msg.kind \in SuccessKinds
      /\ last.outcome = "True"
      /\ OnMessageStep
      /\ last'.msg.request = last.msg.request
      /\ last'.msg.kind \in {last.msg.kind, "Error"})
       => /\ last'.outcome = "ProtocolError"
          /\ UNCHANGED <<_subscriptions, deferreds>>]_vars

\* C10: with no transport attached, a call of publish, subscribe or
\* unsubscribe raises TransportLost, hands no message to the transport,
\* creates no completion and changes no ledger or subscription.
C10_NoTransportFails ==
  [][(_transport = None /\ PublicStep)
       => /\ last'.outcome = "TransportLost"
          /\ last'.msg = NoMsg
          /\ last'.d = 0
          /\ UNCHANGED <<_transport, ledgers, _subscriptions,
                         deferreds>>]_vars
\* a public operation has failed after onClose, with a request still pending
C10_Witness ==
  /\ last.op \in PublicOps
  /\ last.outcome = "TransportLost"
  /\ _transport = None
  /\ PendingIds # {}

\* the Deferred held by the pending entry that onMessage finds for msg
EntryD(msg) ==
  CASE msg.kind = "Published" -> _publish_reqs[msg.request]
    [] msg.kind = "Subscribed" -> _subscribe_reqs[msg.request][1]
    [] msg.kind = "Unsubscribed" -> _unsubscribe_reqs[msg.request][1]
    [] msg.kind = "Error" ->
         IF msg.request \in DOMAIN _publish_reqs
           THEN _publish_reqs[msg.request]
           ELSE IF msg.request \in DOMAIN _subscribe_reqs
             THEN _subscribe_reqs[msg.request][1]
             ELSE _unsubscribe_reqs[msg.request][1]

\* C11: an Error message whose request id is pending in the Publish, the
\* Subscribe or the Unsubscribe ledger is processed without a fault and
\* rejects the completion of that request with the error built from the
\* message.
C11_ErrorRejectsPending ==
  (last.op = "onMessage" /\ last.msg.kind = "Error" /\ last.found # "none")
    => /\ last.outcome = "True"
       /\ last.d # 0
       /\ deferreds[last.d] =
            [called |-> TRUE, result |-> _exception_from_message(last.msg)]

\* C12: processing Error(R) for a pending R is no fault, rejects R's
\* completion and no other, removes no ledger entry but R's and leaves the
\* subscription table and the transport handle unchanged.
C12_ErrorTouchesOnlyR ==
  [][(OnMessageStep /\ last'.msg.kind = "Error"
        /\ last'.msg.request \in PendingIds)
       => LET R == last'.msg.request
              d == EntryD(last'.msg) IN
          /\ last'.outcome = "True"
          /\ deferreds'[d].called
          /\ \A e \in (DOMAIN deferreds) \ {d} : deferreds'[e] = deferreds[e]
          /\ PendingIds \ PendingIds' \subseteq {R}
          /\ OthersKept(_publish_reqs, _publish_reqs', R)
          /\ OthersKept(_subscribe_reqs, _subscribe_reqs', R)
          /\ OthersKept(_unsubscribe_reqs, _unsubscribe_reqs', R)
          /\ UNCHANGED <<_subscriptions, _transport>>]_vars

\* C13: onClose clears the transport handle and leaves every pending entry
\* and every completion as it is; a completion changes, and a pending entry
\* leaves its ledger, only in a call of onMessage on a reply whose request
\* id is the one of that entry.
C13_OnlyRepliesResolve ==
  [][/\ last'.op = "onClose"
          => /\ _transport' = None
             /\ UNCHANGED <<ledgers, deferreds>>
     /\ \A d \in DOMAIN deferreds :
          deferreds'[d] # deferreds[d]
            => /\ OnMessageStep
               /\ InRelevantLedger(last'.msg)
               /\ EntryD(last'.msg) = d
     /\ \A r \in PendingIds :
          r \notin PendingIds'
            => /\ OnMessageStep
               /\ last'.msg.kind \in ReplyKinds
               /\ last'.msg.request = r]_vars
\* onClose has run while a publish request is pending and unresolved
C13_Witness ==
  /\ last.op = "onClose"
  /\ _transport = None
  /\ \E r \in DOMAIN _publish_reqs : ~deferreds[_publish_reqs[r]].called

\* C17: onMessage returns False for a message of any kind other than
\* Published, Subscribed, Unsubscribed and Error and changes nothing; for a
\* message of those four kinds it returns True unless it raises.
C17_HandledFlag ==
  [][OnMessageStep
       => IF last'.msg.kind \in ReplyKinds
            THEN last'.outcome \in {"True", "ProtocolError",
                                    "AlreadyCalledError", "AttributeError"}
            ELSE /\ last'.outcome = "False"
                 /\ UNCHANGED <<_transport, ledgers, _subscriptions,
                                deferreds>>]_vars
\* a message of another kind was handed over with a request pending and a
\* subscription in place
C17_Witness ==
  /\ last.op = "onMessage"
  /\ last.msg.kind = "Event"
  /\ last.outcome = "False"
  /\ PendingIds # {}
  /\ DOMAIN _subscriptions # {}

\* C18: the subscription table changes only in a call of onMessage on a
\* Subscribed or an Unsubscribed reply whose request id is in the ledger of
\* that kind.
C18_TableMutators ==
  [][_subscriptions' # _subscriptions
       => /\ OnMessageStep
          /\ last'.msg.kind \in {"Subscribed", "Unsubscribed"}
          /\ InRelevantLedger(last'.msg)
          /\ last'.outcome # "ProtocolError"]_vars
\* an Error reply to a pending unsubscribe request was processed with a
\* subscription in place
C18_Witness ==
  /\ last.op = "onMessage"
  /\ last.msg.kind = "Error"
  /\ last.found = "unsubscribe"
  /\ DOMAIN _subscriptions # {}

\* C20: when transport.send raises inside publish, subscribe or unsubscribe
\* the request id registered for that call is not left pending.
C20_SendFailureLeavesNoTrace ==
  (last.op \in PublicOps /\ last.outcome = "SendFailed")
    => last.msg.request \notin PendingIds

\* C14: _exception_from_message returns an error value for every Error
\* message and never fails; when the URI has no class, or the constructor of
\* its class does not take the payload, the value is the generic
\* ApplicationError with the message's URI and payload.
C14_FromWireTotal ==
  peer.op = "_exception_from_message"
    => /\ peer.outcome = "returned"
       /\ "raised" \notin DOMAIN peer.result
       /\ (\/ peer.msg.error \notin DOMAIN _uri_to_ecls
           \/ Construct(_uri_to_ecls[peer.msg.error], peer.msg.args,
                        peer.msg.kwargs) = Raised("TypeError"))
            => peer.result = ApplicationError(peer.msg.error, peer.msg.args,
                                              peer.msg.kwargs)
\* a message whose URI has a class that does not take its payload was
\* translated to the generic error
C14_Witness ==
  /\ peer.op = "_exception_from_message"
  /\ peer.msg.error \in DOMAIN _uri_to_ecls
  /\ Construct(_uri_to_ecls[peer.msg.error], peer.msg.args, peer.msg.kwargs)
       = Raised("TypeError")
  /\ peer.result.ecls = "ApplicationError"
  /\ peer.result.kwargs # <<>>

\* the URI the forward map holds for the class of E
UriOf(E) == _ecls_to_uri_pat[E.ecls][1].uri
\* the translation of E to an Error message for request R and back gives a
\* value of E's class with E's payload, by way of a message for R and UriOf(E)
RoundTrips(R, E) ==
  LET m == _message_from_exception(R, E)
      back == _exception_from_message(m) IN
  /\ m.request = R
  /\ m.error = UriOf(E)
  /\ "raised" \notin DOMAIN back
  /\ back.ecls = E.ecls
  /\ back.args = E.args
  /\ back.kwargs = E.kwargs

\* C15 (as claimed): for every error value E whose class was mapped to a URI
\* by define, translating E to an Error message for R and back yields a
\* value of E's class with the same payload, and the message carries R and
\* that URI.
C15_RoundTrip ==
  \A E \in Exceptions, R \in ReqIds :
    E.ecls \in DOMAIN _ecls_to_uri_pat => RoundTrips(R, E)

\* C15 (amended): the round trip holds for every error value E whose class
\* was mapped to URI U by define, while the reverse map still maps U to
\* that class and the constructor of the class, handed E's payload, gives E.
C15_RoundTripWhileReverseHolds ==
  \A E \in Exceptions, R \in ReqIds :
    (/\ E.ecls \in DOMAIN _ecls_to_uri_pat
     /\ _uri_to_ecls[UriOf(E)] = E.ecls
     /\ Construct(E.ecls, E.args, E.kwargs) = E) => RoundTrips(R, E)
\* the message made from a defined error with a keyword payload was
\* translated back to that error
C15_Witness ==
  /\ peer.op = "_exception_from_message"
  /\ \E E \in Exceptions, R \in ReqIds :
       /\ E.ecls \in DOMAIN _ecls_to_uri_pat
       /\ _uri_to_ecls[UriOf(E)] = E.ecls
       /\ Construct(E.ecls, E.args, E.kwargs) = E
       /\ E.kwargs # <<>>
       /\ E.args # <<>>
       /\ peer.msg = _message_from_exception(R, E)
       /\ peer.result = E

\* C16: define accepts a class that declares its URI patterns with the URI
\* omitted and a class without declared patterns with a URI given, and then
\* records the forward and the reverse entry; in the two other combinations
\* it fails with an assertion and leaves both maps unchanged.
C16_DefineCombinations ==
  [][peer'.op = "define"
       => LET c == peer'.ecls
              u == peer'.error
              pats == IF u = None THEN _wampuris(c) ELSE <<Pattern(u)>> IN
          IF (HasWampuris(c) /\ u = None) \/ (~HasWampuris(c) /\ u # None)
            THEN /\ peer'.outcome = "returned"
                 /\ _ecls_to_uri_pat' = Put(_ecls_to_uri_pat, c, pats)
                 /\ _uri_to_ecls' = Put(_uri_to_ecls, pats[1].uri, c)
            ELSE /\ peer'.outcome = "AssertionError"
                 /\ UNCHANGED <<_ecls_to_uri_pat, _uri_to_ecls>>]_vars
\* define was refused for a class with declared patterns and a URI given,
\* with mappings already recorded
C16_Witness ==
  /\ peer.op = "define"
  /\ peer.outcome = "AssertionError"
  /\ HasWampuris(peer.ecls)
  /\ peer.error # None
  /\ DOMAIN _uri_to_ecls # {}
  /\ DOMAIN _ecls_to_uri_pat # {}

\* the kind of the reply that completes a request of operation op
SuccessKindOf(op) ==
  CASE op = "publish" -> "Published"
    [] op = "subscribe" -> "Subscribed"
    [] OTHER -> "Unsubscribed"
\* request is pending in the ledger of operation op
PendingIn(op, request) ==
  CASE op = "publish" -> request \in DOMAIN _publish_reqs
    [] op = "subscribe" -> request \in DOMAIN _subscribe_reqs
    [] OTHER -> request \in DOMAIN _unsubscribe_reqs
\* the completion stored with the pending entry of request in op's ledger
PendingD(op, request) ==
  CASE op = "publish" -> _publish_reqs[request]
    [] op = "subscribe" -> _subscribe_reqs[request][1]
    [] OTHER -> _unsubscribe_reqs[request][1]

\* C19: when publish, subscribe or unsubscribe enters transport.send the
\* pending entry of the new request id is already in the operation's ledger
\* with the operation's completion; the entry stays there through every
\* step other than onMessage on an Error for that request, the return of
\* send included; and a reply to the request (its success reply or an Error)
\* handed to onMessage from within the send call is looked up in that
\* ledger, finds the entry and is not reported as a protocol violation.
C19_RegisteredBeforeSend ==
  [][/\ \A op \in PublicOps, request \in ReqIds :
          /\ (pc = NoCall /\ pc' # NoCall /\ pc'.op = op
                /\ pc'.msg.request = request)
               => /\ PendingIn(op, request)'
                  /\ PendingD(op, request)' = pc'.d
          /\ (/\ PendingIn(op, request)
              /\ ~(/\ OnMessageStep
                   /\ last'.msg.kind = "Error"
                   /\ last'.msg.request = request))
               => /\ PendingIn(op, request)'
                  /\ PendingD(op, request)' = PendingD(op, request)
     /\ (/\ pc # NoCall
         /\ last = pc
         /\ OnMessageStep
         /\ last'.msg.kind \in {SuccessKindOf(pc.op), "Error"}
         /\ last'.msg.request = pc.msg.request)
          => /\ last'.outcome # "ProtocolError"
             /\ last'.found = pc.op]_vars
\* a reply to the request being sent was processed inside the send call and
\* resolved the completion of that request
C19_Witness ==
  /\ pc # NoCall
  /\ pc.op = "subscribe"
  /\ last.op = "onMessage"
  /\ last.msg.kind = "Subscribed"
  /\ last.msg.request = pc.msg.request
  /\ last.found = "subscribe"
  /\ last.d = pc.d
  /\ last.outcome = "True"
  /\ deferreds[pc.d].called

====
